---- MODULE Spec2Model ----
(***************************************************************************)
(* teleecho: the streaming relay pipeline of src/teleecho/teleecho.rs.     *)
(*                                                                         *)
(* Two threads share a mutex-guarded VecDeque<MessageBuffer> and an mpsc   *)
(* channel of BufferChangeEvent:                                           *)
(*   - the producer owns a TeleechoProcessor and calls                     *)
(*     append_to_input_buffer(c), close() and finally drop;                *)
(*   - the worker runs TeleechoSender::send_loop.                          *)
(* A String is kept as the sequence of its runs <<character, count>>, with *)
(* no empty run and no two neighbouring runs of the same character, so     *)
(* that 4096 equal characters are one run.  Time is counted in ticks of    *)
(* TickNs nanoseconds.                                                     *)
(***************************************************************************)
EXTENDS Integers, Sequences, FiniteSets, TLC

\* ---------------------------------------------------------------- constants
\* the telegram message limit the code compares against
MaxMessageLen == 4096

\* the rate-limit window of send_loop, in nanoseconds
SecondNs == 1000000000

\* ------------------------------------------------------------------- bounds
\* clock ticks of the model per second
TicksPerSecond == 2

\* one clock tick, in nanoseconds
TickNs == SecondNs \div TicksPerSecond

\* the clock stops advancing here
MaxTime == 5

\* number of append_to_input_buffer calls of a run of Spec
MaxFeeds == 4

\* number of append_to_input_buffer calls of a run of SpecFeed
MaxLineFeeds == 6

\* number of feeds (a character or a run of equal characters) of a run of SpecCap
MaxRunFeeds == 4

\* number of close() calls made by the owner before the drop
MaxCloses == 2

\* longest queue handed to combine_messages in SpecCombine
MaxQueue == 3

\* number of append_to_input_buffer calls of a run of SpecLive
MaxLiveFeeds == 2

\* number of feeds (a character or a run of equal characters) of a run of SpecInput
MaxInput == 4

\* number of append_to_input_buffer calls of a run of SpecLock
MaxLockFeeds == 2

\* 1000000000u64 nanoseconds, in ticks
OneSecond == SecondNs \div TickNs

LF == "\n"
CR == "\r"

\* the characters the producer feeds one by one
Chars == {"a", LF, CR}

\* lengths of the runs of "a" the producer feeds in one go
RunLens == {MaxMessageLen \div 2 - 1, MaxMessageLen \div 2, MaxMessageLen}

NoMessage == [message_id |-> 0, text |-> <<>>]

\* --------------------------------------------------------------------- String
Run(c, n) == <<<<c, n>>>>

\* s followed by t (push_str); push(c) is Cat(s, Run(c, 1))
Cat(s, t) ==
    IF Len(s) = 0 THEN t
    ELSE IF Len(t) = 0 THEN s
    ELSE IF s[Len(s)][1] = t[1][1]
         THEN SubSeq(s, 1, Len(s) - 1) \o Run(t[1][1], s[Len(s)][2] + t[1][2]) \o Tail(t)
         ELSE s \o t

\* s.chars().count()
RECURSIVE Count(_)
Count(s) == IF Len(s) = 0 THEN 0 ELSE s[1][2] + Count(Tail(s))

\* c occurs in s
Contains(s, c) == \E i \in 1..Len(s) : s[i][1] = c

\* the characters of s other than c, in order
RECURSIVE Without(_, _)
Without(s, c) ==
    IF Len(s) = 0 THEN <<>>
    ELSE IF s[1][1] = c THEN Without(Tail(s), c)
    ELSE Cat(Run(s[1][1], s[1][2]), Without(Tail(s), c))

VARIABLES
    input_buffer,        \* TeleechoProcessor.input_buffer
    input_buffer_size,   \* TeleechoProcessor.input_buffer_size
    handle,              \* TeleechoProcessor.handle is Some
    message_buffer,      \* the shared VecDeque<MessageBuffer>
    channel,             \* events sent and not yet received
    ppc,                 \* where the owner of the processor is
    wpc,                 \* where send_loop is
    wake_at,             \* end of the thread::sleep of send_loop
    to_send,             \* send_loop local: the result of combine_messages
    m,                   \* override_last local: the taken last_sent_message
    api,                 \* the api call in flight, NoCall when there is none
    last_end,            \* when the last api call returned, 0 before the first
    last_sent_message,   \* TeleechoSender.last_sent_message (None = NoMessage)
    last_send_time,      \* TeleechoSender.last_send_time
    now,                 \* time::precise_time_ns(), in ticks
    next_id,             \* message id the server gives to the next message
    feeds,               \* append_to_input_buffer calls so far
    closes,              \* close() calls so far
    obs,                 \* what the last call of the owner did
    lock,                \* who holds the Mutex of the queue; the specifications
                         \* other than SpecLock take each critical section in
                         \* one step and leave it free
    fed,                 \* SpecInput: the characters process_input has fed
    emitted,             \* SpecInput: the messages convert_to_message has
                         \* composed from them
    served,              \* the NewElement events received so far, the api calls
                         \* started so far, and for the last event received:
                         \* the queue length send_loop found (-1 before it
                         \* looked), the calls of combine_messages and the
                         \* api calls made for it
    wobs                 \* the last two dispatches of the worker (the function
                         \* called, its argument, whether it called the api, the
                         \* result, how many segments stayed queued, the last
                         \* message it started with) and the queue the last
                         \* combine_messages was handed

vars == <<input_buffer, input_buffer_size, handle, message_buffer, channel,
          ppc, wpc, wake_at, to_send, m, api, last_end,
          last_sent_message, last_send_time, now, next_id, feeds, closes, obs,
          fed, emitted, served, lock, wobs>>

producer_vars == <<input_buffer, input_buffer_size, handle, ppc, feeds, closes,
                   fed, emitted>>
worker_vars == <<wpc, wake_at, to_send, m, api, last_end,
                 last_sent_message, last_send_time, next_id, served, wobs>>

\* -------------------------------------------------------------- MessageBuffer
Newline(t) == [tag |-> "Newline", text |-> t]
CarriageReturn(t) == [tag |-> "CarriageReturn", text |-> t]

NoBatch == [tag |-> "None", text |-> <<>>]
NoCall == [op |-> "none", message_id |-> 0, text |-> <<>>, started |-> 0]
NoObs == [op |-> "none"]
NoSignal == [signals |-> 0, dispatches |-> 0, queued |-> -1, dequeues |-> 0, calls |-> 0]
NoOp == [fn |-> "none", s |-> <<>>, called |-> FALSE, result |-> "none", left |-> 0,
         had |-> NoMessage]

\* ------------------------------------------------------------------ producer
\* The receiver lives in the worker thread's closure: once send_loop has
\* returned it is dropped and Sender::send returns Err.
ReceiverAlive == wpc # "done"

\* append_to_send_buffer that puts the new segment, tag and all, in the place
\* of the last one
append_overrides_tag(p, msg) ==
    LET q == p.q
        q1 == IF Len(q) = 0 \/ msg.tag = "Newline" THEN Append(q, msg)
              ELSE Append(SubSeq(q, 1, Len(q) - 1), msg)
        flushed == [msg |-> msg, len_before |-> Len(q)]
    IN  IF ReceiverAlive
        THEN [p EXCEPT !.q = q1, !.ch = Append(p.ch, "NewElement"),
                       !.log = Append(p.log, flushed)]
        ELSE [p EXCEPT !.q = q1, !.ok = FALSE, !.log = Append(p.log, flushed)]

\* append_to_send_buffer that overrides the first queued message, not the last
append_overrides_front(p, msg) ==
    LET q == p.q
        q1 == IF Len(q) = 0 \/ msg.tag = "Newline" THEN Append(q, msg)
              ELSE <<[tag |-> q[1].tag, text |-> msg.text]>> \o Tail(q)
        flushed == [msg |-> msg, len_before |-> Len(q)]
    IN  IF ReceiverAlive
        THEN [p EXCEPT !.q = q1, !.ch = Append(p.ch, "NewElement"),
                       !.log = Append(p.log, flushed)]
        ELSE [p EXCEPT !.q = q1, !.ok = FALSE, !.log = Append(p.log, flushed)]

\* append_to_send_buffer that sends no NewElement when it overrides
append_override_is_silent(p, msg) ==
    LET q == p.q
        pushes == Len(q) = 0 \/ msg.tag = "Newline"
        q1 == IF pushes THEN Append(q, msg)
              ELSE Append(SubSeq(q, 1, Len(q) - 1),
                          [tag |-> q[Len(q)].tag, text |-> msg.text])
        flushed == [msg |-> msg, len_before |-> Len(q)]
    IN  IF ReceiverAlive
        THEN [p EXCEPT !.q = q1,
                       !.ch = IF pushes THEN Append(p.ch, "NewElement") ELSE p.ch,
                       !.log = Append(p.log, flushed)]
        ELSE [p EXCEPT !.q = q1, !.ok = FALSE, !.log = Append(p.log, flushed)]

\* append_to_send_buffer that pushes every message at the tail
append_always_pushes(p, msg) ==
    LET flushed == [msg |-> msg, len_before |-> Len(p.q)]
    IN  IF ReceiverAlive
        THEN [p EXCEPT !.q = Append(p.q, msg), !.ch = Append(p.ch, "NewElement"),
                       !.log = Append(p.log, flushed)]
        ELSE [p EXCEPT !.q = Append(p.q, msg), !.ok = FALSE,
                       !.log = Append(p.log, flushed)]

\* append_to_send_buffer that pops the last message for a CarriageReturn and
\* pushes nothing in its place
append_drops_tail(p, msg) ==
    LET q == p.q
        q1 == IF Len(q) = 0 \/ msg.tag = "Newline" THEN Append(q, msg)
              ELSE SubSeq(q, 1, Len(q) - 1)
        flushed == [msg |-> msg, len_before |-> Len(q)]
    IN  IF ReceiverAlive
        THEN [p EXCEPT !.q = q1, !.ch = Append(p.ch, "NewElement"),
                       !.log = Append(p.log, flushed)]
        ELSE [p EXCEPT !.q = q1, !.ok = FALSE, !.log = Append(p.log, flushed)]

\* append_to_send_buffer on the producer state p = [buf, size, q, ch, ok, log]
append_to_send_buffer(p, msg) ==
    LET q == p.q
        q1 == IF Len(q) = 0 THEN Append(q, msg)
              ELSE IF msg.tag = "Newline" THEN Append(q, msg)
              ELSE LET last_elem == q[Len(q)]
                       new_elem == IF last_elem.tag = "CarriageReturn"
                                   THEN CarriageReturn(msg.text)
                                   ELSE Newline(msg.text)
                   IN  Append(SubSeq(q, 1, Len(q) - 1), new_elem)
        flushed == [msg |-> msg, len_before |-> Len(q)]
    IN  IF ReceiverAlive
        THEN [p EXCEPT !.q = q1, !.ch = Append(p.ch, "NewElement"),
                       !.log = Append(p.log, flushed)]
        ELSE [p EXCEPT !.q = q1, !.ok = FALSE, !.log = Append(p.log, flushed)]

\* convert_to_message that composes a Newline whatever the buffer holds
convert_tags_newline(p) ==
    LET message_text == Without(p.buf, CR)
        p1 == append_to_send_buffer(p, Newline(message_text))
    IN  IF p1.ok THEN [p1 EXCEPT !.buf = <<>>, !.size = 0] ELSE p1

\* convert_to_message that resets the size and leaves the text in the buffer
convert_keeps_buffer(p) ==
    LET message_text == Without(p.buf, CR)
        is_carriage_return == Contains(p.buf, CR)
        message == IF is_carriage_return THEN CarriageReturn(message_text)
                   ELSE Newline(message_text)
        p1 == append_to_send_buffer(p, message)
    IN  IF p1.ok THEN [p1 EXCEPT !.size = 0] ELSE p1

convert_to_message(p) ==
    LET message_text == Without(p.buf, CR)
        is_carriage_return == Contains(p.buf, CR)
        message == IF is_carriage_return THEN CarriageReturn(message_text)
                   ELSE Newline(message_text)
        p1 == append_to_send_buffer(p, message)
    IN  IF p1.ok THEN [p1 EXCEPT !.buf = <<>>, !.size = 0] ELSE p1

\* append_to_input_buffer that flushes only above the limit
append_chars_above_limit(p, cs) ==
    LET c == cs[1][1]
        p1 == IF c = LF \/ c = CR THEN convert_to_message(p) ELSE p
        p2 == IF p1.ok /\ c # LF
              THEN [p1 EXCEPT !.buf = Cat(p1.buf, cs), !.size = p1.size + Count(cs)]
              ELSE p1
        p3 == IF p2.ok /\ p2.size > MaxMessageLen THEN convert_to_message(p2) ELSE p2
    IN  p3

\* the three steps of append_to_input_buffer; a panic (ok = FALSE) skips the rest
append_chars(p, cs) ==
    LET c == cs[1][1]
        p1 == IF c = LF \/ c = CR THEN convert_to_message(p) ELSE p
        p2 == IF p1.ok /\ c # LF
              THEN [p1 EXCEPT !.buf = Cat(p1.buf, cs), !.size = p1.size + Count(cs)]
              ELSE p1
        p3 == IF p2.ok /\ p2.size >= MaxMessageLen THEN convert_to_message(p2) ELSE p2
    IN  p3

ProducerState ==
    [buf |-> input_buffer, size |-> input_buffer_size, q |-> message_buffer,
     ch |-> channel, ok |-> TRUE, log |-> <<>>]

FeedChars(cs) ==
    /\ ppc = "ready"
    /\ LET p == append_chars(ProducerState, cs)
       IN  /\ input_buffer' = p.buf
           /\ input_buffer_size' = p.size
           /\ message_buffer' = p.q
           /\ channel' = p.ch
           /\ ppc' = IF p.ok THEN "ready" ELSE "panicked"
           /\ obs' = [op |-> "feed", flushes |-> p.log]
    /\ feeds' = feeds + 1
    /\ UNCHANGED <<handle, closes, now>>
    /\ UNCHANGED worker_vars
    /\ UNCHANGED lock

\* append_to_input_buffer(c)
append_to_input_buffer(c) ==
    /\ FeedChars(Run(c, 1))
    /\ UNCHANGED <<fed, emitted>>

\* n calls append_to_input_buffer("a") in a row, none of which but the last
\* can flush: the accumulator is private to the producer until a flush
FeedRun(n) ==
    /\ input_buffer_size + n <= MaxMessageLen
    /\ FeedChars(Run("a", n))
    /\ UNCHANGED <<fed, emitted>>

\* what process_input feeds in one step: a character, or a run of the same
\* character that brings the accumulator close to its limit
InputRuns == {Run("a", 1), Run("b", 1), Run(LF, 1), Run(CR, 1),
              Run("a", MaxMessageLen - 1)}

\* process_input calls append_to_input_buffer for the characters of cs, the
\* last of which may flush
process_input(cs) ==
    /\ input_buffer_size + Count(cs) <= MaxMessageLen
    /\ FeedChars(cs)
    /\ fed' = Cat(fed, cs)
    /\ emitted' = emitted \o [i \in 1..Len(obs'.flushes) |-> obs'.flushes[i].msg]

\* ---------------------------------------------- the producer, lock by lock
\* what the owner feeds in SpecLock: a character, or as many "a" as fill the
\* accumulator
LockRuns == {Run("a", 1), Run(LF, 1), Run(CR, 1), Run("a", MaxMessageLen)}

\* where the owner waits for the lock of the queue, and where it holds it: in
\* the convert_to_message of a line feed, of a carriage return, of a full
\* accumulator
LockPcs == {"lock_lf", "lock_cr", "lock_full"}
SectionPcs == {"section_lf", "section_cr", "section_full"}

\* append_to_input_buffer, up to its first self.message_buffer.lock(): a line
\* break goes to convert_to_message at once, any other character is pushed
\* and goes there if the accumulator is full
feed_call(cs) ==
    /\ ppc = "ready"
    /\ input_buffer_size + Count(cs) <= MaxMessageLen
    /\ LET c == cs[1][1]
       IN  IF c = LF \/ c = CR
           THEN /\ ppc' = IF c = LF THEN "lock_lf" ELSE "lock_cr"
                /\ UNCHANGED <<input_buffer, input_buffer_size, feeds>>
           ELSE /\ input_buffer' = Cat(input_buffer, cs)
                /\ input_buffer_size' = input_buffer_size + Count(cs)
                /\ IF input_buffer_size' >= MaxMessageLen
                   THEN ppc' = "lock_full" /\ UNCHANGED feeds
                   ELSE ppc' = "ready" /\ feeds' = feeds + 1
    /\ obs' = [op |-> "feed", flushes |-> <<>>]
    /\ UNCHANGED <<handle, closes, fed, emitted, message_buffer, channel, now, lock>>
    /\ UNCHANGED worker_vars

\* self.message_buffer.lock().unwrap() in append_to_send_buffer
producer_lock ==
    /\ ppc \in LockPcs
    /\ lock = "free"
    /\ lock' = "producer"
    /\ ppc' = CHOOSE pc \in SectionPcs :
                 pc = IF ppc = "lock_lf" THEN "section_lf"
                      ELSE IF ppc = "lock_cr" THEN "section_cr" ELSE "section_full"
    /\ UNCHANGED <<input_buffer, input_buffer_size, handle, feeds, closes, fed, emitted,
                   message_buffer, channel, now, obs>>
    /\ UNCHANGED worker_vars

\* the rest of convert_to_message: the message is put in the queue, the event
\* sent and the guard dropped; then the rest of append_to_input_buffer, which
\* pushes a carriage return and tests the size again
producer_section ==
    /\ ppc \in SectionPcs
    /\ lock = "producer"
    /\ lock' = "free"
    /\ LET p == convert_to_message(ProducerState)
           p2 == IF p.ok /\ ppc = "section_cr"
                 THEN [p EXCEPT !.buf = Cat(p.buf, Run(CR, 1)), !.size = p.size + 1]
                 ELSE p
           again == p2.ok /\ ppc # "section_full" /\ p2.size >= MaxMessageLen
       IN  /\ input_buffer' = p2.buf
           /\ input_buffer_size' = p2.size
           /\ message_buffer' = p2.q
           /\ channel' = p2.ch
           /\ ppc' = IF ~p2.ok THEN "panicked"
                     ELSE IF again THEN "lock_full" ELSE "ready"
           /\ feeds' = IF p2.ok /\ ~again THEN feeds + 1 ELSE feeds
           /\ obs' = [op |-> "feed", flushes |-> p2.log]
    /\ UNCHANGED <<handle, closes, fed, emitted, now>>
    /\ UNCHANGED worker_vars

\* close() that reads the handle without taking it
CloseKeepsHandle(join_pc, done_pc) ==
    IF handle
    THEN /\ channel' = Append(channel, "Kill")
         /\ ppc' = join_pc
         /\ UNCHANGED handle
    ELSE /\ ppc' = done_pc
         /\ UNCHANGED <<handle, channel>>

\* close(): the first half, up to the blocking join
CloseTake(join_pc, done_pc) ==
    IF handle
    THEN /\ handle' = FALSE
         /\ channel' = Append(channel, "Kill")
         /\ ppc' = join_pc
    ELSE /\ ppc' = done_pc
         /\ UNCHANGED <<handle, channel>>

close ==
    /\ ppc = "ready"
    /\ closes < MaxCloses
    /\ closes' = closes + 1
    /\ CloseTake("close_join", "ready")
    /\ obs' = [op |-> "close", had_handle |-> handle]
    /\ UNCHANGED <<input_buffer, input_buffer_size, message_buffer, feeds, now>>
    /\ UNCHANGED <<fed, emitted>>
    /\ UNCHANGED worker_vars
    /\ UNCHANGED lock

\* a drop that flushes the accumulator before it closes
drop_flushes ==
    /\ ppc \in {"ready", "panicked"}
    /\ LET p == IF input_buffer_size > 0 /\ ReceiverAlive
                THEN convert_to_message(ProducerState) ELSE ProducerState
       IN  /\ input_buffer' = p.buf
           /\ input_buffer_size' = p.size
           /\ message_buffer' = p.q
           /\ IF handle
              THEN /\ handle' = FALSE
                   /\ channel' = Append(p.ch, "Kill")
                   /\ ppc' = "drop_join"
              ELSE /\ ppc' = "dropped"
                   /\ channel' = p.ch
                   /\ UNCHANGED handle
    /\ obs' = [op |-> "drop", had_handle |-> handle]
    /\ UNCHANGED <<feeds, closes, now>>
    /\ UNCHANGED <<fed, emitted>>
    /\ UNCHANGED worker_vars
    /\ UNCHANGED lock

\* Drop for TeleechoProcessor, at the end of the owner's scope or while a
\* panic of the owner unwinds
drop ==
    /\ ppc \in {"ready", "panicked"}
    /\ CloseTake("drop_join", "dropped")
    /\ obs' = [op |-> "drop", had_handle |-> handle]
    /\ UNCHANGED <<input_buffer, input_buffer_size, message_buffer, feeds, closes, now>>
    /\ UNCHANGED <<fed, emitted>>
    /\ UNCHANGED worker_vars
    /\ UNCHANGED lock

\* join that does not wait for the thread
join_returns_early ==
    /\ ppc \in {"close_join", "drop_join"}
    /\ ppc' = IF ppc = "close_join" THEN "ready" ELSE "dropped"
    /\ obs' = [op |-> "join"]
    /\ UNCHANGED <<input_buffer, input_buffer_size, handle, message_buffer, channel,
                   feeds, closes, now>>
    /\ UNCHANGED <<fed, emitted>>
    /\ UNCHANGED worker_vars
    /\ UNCHANGED lock

\* handle.join() returns once send_loop has returned
join ==
    /\ ppc \in {"close_join", "drop_join"}
    /\ wpc = "done"
    /\ ppc' = IF ppc = "close_join" THEN "ready" ELSE "dropped"
    /\ obs' = [op |-> "join"]
    /\ UNCHANGED <<input_buffer, input_buffer_size, handle, message_buffer, channel,
                   feeds, closes, now>>
    /\ UNCHANGED <<fed, emitted>>
    /\ UNCHANGED worker_vars
    /\ UNCHANGED lock

\* -------------------------------------------------------------------- worker
\* the merge loop with the length test off by one: > instead of >=
RECURSIVE merge_up_to_limit(_, _, _)
merge_up_to_limit(message, message_length, q) ==
    IF Len(q) = 0 THEN [batch |-> Newline(message), rest |-> q]
    ELSE LET new_pop == Head(q)
             this_message_length == Count(new_pop.text)
         IN  IF new_pop.tag = "Newline"
             THEN IF this_message_length + message_length + 1 > MaxMessageLen
                  THEN [batch |-> Newline(message), rest |-> <<new_pop>> \o Tail(q)]
                  ELSE merge_up_to_limit(Cat(Cat(message, Run(LF, 1)), new_pop.text),
                                         message_length + this_message_length + 1,
                                         Tail(q))
             ELSE merge_up_to_limit(message, message_length, Tail(q))

\* the merge loop that puts each popped message before the batch text
RECURSIVE merge_in_reverse(_, _, _)
merge_in_reverse(message, message_length, q) ==
    IF Len(q) = 0 THEN [batch |-> Newline(message), rest |-> q]
    ELSE LET new_pop == Head(q)
             this_message_length == Count(new_pop.text)
         IN  IF new_pop.tag = "Newline"
             THEN IF this_message_length + message_length + 1 >= MaxMessageLen
                  THEN [batch |-> Newline(message), rest |-> <<new_pop>> \o Tail(q)]
                  ELSE merge_in_reverse(Cat(Cat(new_pop.text, Run(LF, 1)), message),
                                        message_length + this_message_length + 1,
                                        Tail(q))
             ELSE merge_in_reverse(message, message_length, Tail(q))

\* the while loop of combine_messages: message is the batch text so far, q the
\* rest of the queue.  A popped CarriageReturn matches neither arm of the
\* `if let` and is not put back.
RECURSIVE merge_newlines(_, _, _)
merge_newlines(message, message_length, q) ==
    IF Len(q) = 0 THEN [batch |-> Newline(message), rest |-> q]
    ELSE LET new_pop == Head(q)
             this_message_length == Count(new_pop.text)
         IN  IF new_pop.tag = "Newline"
             THEN IF this_message_length + message_length + 1 >= MaxMessageLen
                  THEN [batch |-> Newline(message), rest |-> <<new_pop>> \o Tail(q)]
                  ELSE merge_newlines(Cat(Cat(message, Run(LF, 1)), new_pop.text),
                                      message_length + this_message_length + 1,
                                      Tail(q))
             ELSE merge_newlines(message, message_length, Tail(q))

\* combine_messages that merges whatever is at the head
combine_any_head(q) == merge_newlines(Head(q).text, Count(Head(q).text), Tail(q))

\* combine_messages on a non-empty queue: the batch and what stays queued
combine_messages(q) ==
    LET front == Head(q)
    IN  IF front.tag = "Newline"
        THEN merge_newlines(front.text, Count(front.text), Tail(q))
        ELSE [batch |-> CarriageReturn(front.text), rest |-> Tail(q)]

\* old_text.split("\n") from the left: done are the finished parts, part the
\* one being read.  A run of k line feeds ends it and k - 1 empty ones.
RECURSIVE split_from(_, _, _)
split_from(done, part, s) ==
    IF Len(s) = 0 THEN Append(done, part)
    ELSE IF s[1][1] = LF
         THEN split_from(Append(done, part) \o [i \in 1..(s[1][2] - 1) |-> <<>>],
                         <<>>, Tail(s))
         ELSE split_from(done, Cat(part, Run(s[1][1], s[1][2])), Tail(s))

split(s) == split_from(<<>>, <<>>, s)

\* parts.join("\n")
RECURSIVE join_parts(_)
join_parts(parts) ==
    IF Len(parts) = 0 THEN <<>>
    ELSE IF Len(parts) = 1 THEN parts[1]
    ELSE Cat(Cat(parts[1], Run(LF, 1)), join_parts(Tail(parts)))

\* the new text appended without the last part being removed
final_message_keeps_last(old_text, s) == join_parts(Append(split(old_text), s))

\* the text override_last hands to edit_message_text
final_message(old_text, s) ==
    LET parts == split(old_text)
        popped == IF Len(parts) > 0 THEN SubSeq(parts, 1, Len(parts) - 1) ELSE parts
    IN  join_parts(Append(popped, s))

\* recv that takes a Kill off the channel and goes on waiting
recv_ignores_kill ==
    /\ wpc = "recv"
    /\ Len(channel) > 0
    /\ channel' = Tail(channel)
    /\ IF Head(channel) = "Kill"
       THEN /\ wpc' = "recv"
            /\ UNCHANGED wake_at
       ELSE LET time_diff == now - last_send_time
            IN  IF time_diff <= OneSecond /\ last_send_time # 0
                THEN /\ wpc' = "sleep"
                     /\ wake_at' = now + (OneSecond - time_diff)
                ELSE /\ wpc' = "check"
                     /\ UNCHANGED wake_at
    /\ served' = IF Head(channel) = "Kill" THEN served
                 ELSE [served EXCEPT !.signals = @ + 1, !.queued = -1,
                                     !.dequeues = 0, !.calls = 0]
    /\ UNCHANGED <<to_send, m, api, last_end, last_sent_message, last_send_time,
                   next_id, wobs>>
    /\ UNCHANGED <<message_buffer, now, obs>>
    /\ UNCHANGED producer_vars
    /\ UNCHANGED lock

\* receiver.recv(), the match on the event, and the rate-limit test
recv ==
    /\ wpc = "recv"
    /\ Len(channel) > 0
    /\ channel' = Tail(channel)
    /\ IF Head(channel) = "Kill"
       THEN /\ wpc' = "done"
            /\ UNCHANGED wake_at
       ELSE LET time_diff == now - last_send_time
            IN  IF time_diff <= OneSecond /\ last_send_time # 0
                THEN /\ wpc' = "sleep"
                     /\ wake_at' = now + (OneSecond - time_diff)
                ELSE /\ wpc' = "check"
                     /\ UNCHANGED wake_at
    /\ served' = IF Head(channel) = "Kill" THEN served
                 ELSE [served EXCEPT !.signals = @ + 1, !.queued = -1,
                                     !.dequeues = 0, !.calls = 0]
    /\ UNCHANGED <<to_send, m, api, last_end, last_sent_message, last_send_time,
                   next_id, wobs>>
    /\ UNCHANGED <<message_buffer, now, obs>>
    /\ UNCHANGED producer_vars
    /\ UNCHANGED lock

\* thread::sleep returns, no earlier than asked
sleep ==
    /\ wpc = "sleep"
    /\ now >= wake_at
    /\ wpc' = "check"
    /\ wake_at' = 0
    /\ UNCHANGED <<to_send, m, api, last_end, last_sent_message,
                   last_send_time, next_id, served, wobs>>
    /\ UNCHANGED <<message_buffer, channel, now, obs>>
    /\ UNCHANGED producer_vars
    /\ UNCHANGED lock

\* send_loop without the test of the queue length
check_len_skipped ==
    /\ wpc = "check"
    /\ wpc' = "combine"
    /\ served' = [served EXCEPT !.queued = Len(message_buffer)]
    /\ UNCHANGED <<wake_at, to_send, m, api, last_end, last_sent_message,
                   last_send_time, next_id, wobs>>
    /\ UNCHANGED <<message_buffer, channel, now, obs>>
    /\ UNCHANGED producer_vars
    /\ UNCHANGED lock

\* send_loop that combines only when more than one message is queued
check_len_above_one ==
    /\ wpc = "check"
    /\ wpc' = IF Len(message_buffer) > 1 THEN "combine" ELSE "recv"
    /\ served' = [served EXCEPT !.queued = Len(message_buffer)]
    /\ UNCHANGED <<wake_at, to_send, m, api, last_end, last_sent_message,
                   last_send_time, next_id, wobs>>
    /\ UNCHANGED <<message_buffer, channel, now, obs>>
    /\ UNCHANGED producer_vars
    /\ UNCHANGED lock

\* ts.message_buffer.lock().unwrap().len() > 0, the worker being at pc
check_len_at(pc) ==
    /\ wpc = pc
    /\ wpc' = IF Len(message_buffer) > 0 THEN "combine" ELSE "recv"
    /\ served' = [served EXCEPT !.queued = Len(message_buffer)]
    /\ UNCHANGED <<wake_at, to_send, m, api, last_end, last_sent_message,
                   last_send_time, next_id, wobs>>
    /\ UNCHANGED <<message_buffer, channel, now, obs>>
    /\ UNCHANGED producer_vars

\* if ts.message_buffer.lock().unwrap().len() > 0
check_len ==
    /\ check_len_at("check")
    /\ UNCHANGED lock

\* the time is taken and the queue length tested again, without a recv
stamp_and_look_again ==
    /\ last_send_time' = now
    /\ wpc' = "check"

\* the time is taken before the dispatch instead of after it
StampBeforeDispatch ==
    /\ last_send_time' = IF api.op # "none" THEN api.started ELSE now
    /\ wpc' = "recv"

\* ts.last_send_time = time::precise_time_ns(), and back to the top of the loop
stamp ==
    /\ last_send_time' = now
    /\ wpc' = "recv"

\* send without the test of the text length
send_any(s) ==
    /\ api' = [op |-> "send", message_id |-> 0, text |-> s, started |-> now]
    /\ wpc' = "api"
    /\ UNCHANGED <<m, last_sent_message, last_send_time>>

\* send(s): nothing for an empty text, else up to the call of api.send_message
send(s) ==
    IF Count(s) > 0
    THEN /\ api' = [op |-> "send", message_id |-> 0, text |-> s, started |-> now]
         /\ wpc' = "api"
         /\ UNCHANGED <<m, last_sent_message, last_send_time>>
    ELSE /\ stamp
         /\ UNCHANGED <<api, m, last_sent_message>>

\* override_last that does not look whether there is a last message
override_without_last(s) ==
    IF Count(s) > 0 /\ last_sent_message.text # s
    THEN /\ m' = last_sent_message
         /\ last_sent_message' = NoMessage
         /\ api' = [op |-> "edit", message_id |-> last_sent_message.message_id,
                    text |-> final_message(last_sent_message.text, s),
                    started |-> now]
         /\ wpc' = "api"
         /\ UNCHANGED last_send_time
    ELSE /\ stamp
         /\ UNCHANGED <<api, m, last_sent_message>>

\* override_last(s): nothing for an empty text, without a last message or
\* when the last message has this very text, else up to the call of
\* api.edit_message_text
override_last(s) ==
    IF Count(s) > 0 /\ last_sent_message # NoMessage /\ last_sent_message.text # s
    THEN /\ m' = last_sent_message
         /\ last_sent_message' = NoMessage
         /\ api' = [op |-> "edit", message_id |-> last_sent_message.message_id,
                    text |-> final_message(last_sent_message.text, s),
                    started |-> now]
         /\ wpc' = "api"
         /\ UNCHANGED last_send_time
    ELSE /\ stamp
         /\ UNCHANGED <<api, m, last_sent_message>>

\* let to_send = combine_messages(..) and the match on it.  pop_front().unwrap()
\* panics on an empty queue.
combine_at(pc) ==
    /\ wpc = pc
    /\ IF Len(message_buffer) = 0
       THEN /\ wpc' = "panicked"
            /\ UNCHANGED <<to_send, message_buffer, wobs, api, m, last_sent_message,
                           last_send_time, served>>
       ELSE LET r == combine_messages(message_buffer)
            IN  /\ to_send' = r.batch
                /\ message_buffer' = r.rest
                /\ IF r.batch.tag = "Newline"
                   THEN send(r.batch.text)
                   ELSE override_last(r.batch.text)
                /\ wobs' = [before |-> message_buffer,
                            prev |-> wobs.last,
                            last |-> [fn |-> IF r.batch.tag = "Newline" THEN "send"
                                             ELSE "override_last",
                                      s |-> r.batch.text, called |-> (wpc' = "api"),
                                      result |-> "none", left |-> Len(r.rest),
                                      had |-> last_sent_message]]
                /\ served' = IF wpc' = "api"
                             THEN [served EXCEPT !.dequeues = @ + 1, !.calls = @ + 1,
                                                 !.dispatches = @ + 1]
                             ELSE [served EXCEPT !.dequeues = @ + 1]
    /\ UNCHANGED <<wake_at, last_end, next_id>>
    /\ UNCHANGED <<channel, now, obs>>
    /\ UNCHANGED producer_vars

\* combine_messages and the dispatch of its result
combine ==
    /\ combine_at("combine")
    /\ UNCHANGED lock

\* ------------------------------------------------ the worker, lock by lock
\* where the worker holds the lock of the queue
WorkerSectionPcs == {"check_locked", "combine_locked"}

\* message_buffer.lock().unwrap() in send_loop and in combine_messages
worker_lock ==
    /\ wpc \in {"check", "combine"}
    /\ lock = "free"
    /\ lock' = "worker"
    /\ wpc' = IF wpc = "check" THEN "check_locked" ELSE "combine_locked"
    /\ UNCHANGED <<wake_at, to_send, m, api, last_end, last_sent_message,
                   last_send_time, next_id, served, wobs>>
    /\ UNCHANGED <<message_buffer, channel, now, obs>>
    /\ UNCHANGED producer_vars

\* the length is read and the guard, a temporary of the condition, dropped
len_section ==
    /\ lock = "worker"
    /\ check_len_at("check_locked")
    /\ lock' = "free"

\* combine_messages that hands its guard on to the api call
combine_section_keeps_lock ==
    /\ lock = "worker"
    /\ combine_at("combine_locked")
    /\ lock' = IF wpc' = "api" THEN "worker" ELSE "free"

\* combine_messages under its guard, which is dropped when it returns, before
\* send or override_last is called
combine_section ==
    /\ lock = "worker"
    /\ combine_at("combine_locked")
    /\ lock' = "free"

\* api_return without the Err arm of override_last putting the message back
api_return_forgets_message(ok) ==
    /\ wpc = "api"
    /\ api' = NoCall
    /\ last_end' = now
    /\ wobs' = [wobs EXCEPT !.last.result = IF ok THEN "ok" ELSE "err"]
    /\ IF api.op = "send"
       THEN /\ last_sent_message' =
                 IF ok THEN [message_id |-> next_id, text |-> api.text]
                 ELSE last_sent_message
            /\ next_id' = IF ok THEN next_id + 1 ELSE next_id
       ELSE /\ last_sent_message' =
                 IF ok THEN [message_id |-> api.message_id, text |-> api.text]
                 ELSE last_sent_message
            /\ UNCHANGED next_id
    /\ m' = NoMessage
    /\ stamp
    /\ UNCHANGED <<wake_at, to_send, served>>
    /\ UNCHANGED <<message_buffer, channel, now, obs>>
    /\ UNCHANGED producer_vars
    /\ UNCHANGED lock

\* the api call returns Ok(message) or Err: the server gives a new message a
\* fresh id and reports the text it was given
api_return(ok) ==
    /\ wpc = "api"
    /\ api' = NoCall
    /\ last_end' = now
    /\ wobs' = [wobs EXCEPT !.last.result = IF ok THEN "ok" ELSE "err"]
    /\ IF api.op = "send"
       THEN /\ last_sent_message' =
                 IF ok THEN [message_id |-> next_id, text |-> api.text]
                 ELSE last_sent_message
            /\ next_id' = IF ok THEN next_id + 1 ELSE next_id
       ELSE /\ last_sent_message' =
                 IF ok THEN [message_id |-> api.message_id, text |-> api.text] ELSE m
            /\ UNCHANGED next_id
    /\ m' = NoMessage
    /\ stamp
    /\ UNCHANGED <<wake_at, to_send, served>>
    /\ UNCHANGED <<message_buffer, channel, now, obs>>
    /\ UNCHANGED producer_vars
    /\ UNCHANGED lock

\* --------------------------------------------------------------------- clock
Tick ==
    /\ now < MaxTime
    /\ now' = now + 1
    /\ UNCHANGED <<message_buffer, channel, obs>>
    /\ UNCHANGED producer_vars
    /\ UNCHANGED worker_vars
    /\ UNCHANGED lock

\* the clock that goes on until a sleeping worker is woken
TickLive ==
    /\ now < MaxTime \/ (wpc = "sleep" /\ now < wake_at)
    /\ now' = now + 1
    /\ UNCHANGED <<message_buffer, channel, obs>>
    /\ UNCHANGED producer_vars
    /\ UNCHANGED worker_vars
    /\ UNCHANGED lock

\* ------------------------------------------------------------- specification
Init ==
    /\ input_buffer = <<>>
    /\ input_buffer_size = 0
    /\ handle = TRUE
    /\ message_buffer = <<>>
    /\ channel = <<>>
    /\ ppc = "ready"
    /\ wpc = "recv"
    /\ wake_at = 0
    /\ to_send = NoBatch
    /\ m = NoMessage
    /\ api = NoCall
    /\ last_end = 0
    /\ last_sent_message = NoMessage
    /\ last_send_time = 0
    /\ now = 1
    /\ next_id = 1
    /\ feeds = 0
    /\ closes = 0
    /\ obs = NoObs
    /\ fed = <<>>
    /\ emitted = <<>>
    /\ served = NoSignal
    /\ lock = "free"
    /\ wobs = [last |-> NoOp, prev |-> NoOp, before |-> <<>>]

Worker ==
    \/ recv
    \/ sleep
    \/ check_len
    \/ combine
    \/ \E ok \in BOOLEAN : api_return(ok)

\* the owner feeds single characters, closes and drops the processor
Next ==
    \/ (feeds < MaxFeeds /\ \E c \in Chars : append_to_input_buffer(c))
    \/ close
    \/ drop
    \/ join
    \/ Worker
    \/ Tick

Spec == Init /\ [][Next]_vars

\* the same with a worker thread that is scheduled again and again, api calls
\* that return and sleeps that end
NextLive ==
    \/ (feeds < MaxLiveFeeds /\ \E c \in Chars : append_to_input_buffer(c))
    \/ close
    \/ drop
    \/ join
    \/ Worker
    \/ TickLive

SpecLive == Init /\ [][NextLive]_vars /\ WF_vars(Worker) /\ WF_vars(TickLive)

\* every lock() and every critical section of the queue is a step of its own
WorkerLocking ==
    \/ recv
    \/ sleep
    \/ worker_lock
    \/ len_section
    \/ combine_section
    \/ \E ok \in BOOLEAN : api_return(ok)

ProducerLocking ==
    \/ producer_lock
    \/ producer_section

NextLock ==
    \/ (feeds < MaxLockFeeds /\ \E cs \in LockRuns : feed_call(cs))
    \/ ProducerLocking
    \/ WorkerLocking
    \/ TickLive

SpecLock ==
    /\ Init
    /\ [][NextLock]_vars
    /\ WF_vars(ProducerLocking)
    /\ WF_vars(WorkerLocking)
    /\ WF_vars(TickLive)

\* the owner only feeds single characters
NextFeed ==
    \/ (feeds < MaxLineFeeds /\ \E c \in Chars : append_to_input_buffer(c))
    \/ Worker
    \/ Tick

SpecFeed == Init /\ [][NextFeed]_vars

\* the owner only feeds line breaks and runs long enough to reach the length cap
NextCap ==
    \/ (feeds < MaxRunFeeds /\ \E c \in {LF, CR} : append_to_input_buffer(c))
    \/ (feeds < MaxRunFeeds /\ \E n \in RunLens : FeedRun(n))
    \/ Worker
    \/ Tick

SpecCap == Init /\ [][NextCap]_vars

\* process_input feeds what it reads; what was fed and what was flushed is recorded
NextInput ==
    \/ (feeds < MaxInput /\ \E cs \in InputRuns : process_input(cs))
    \/ Worker
    \/ Tick

SpecInput == Init /\ [][NextInput]_vars

\* combine_messages as a function of the queue it is handed: the worker is
\* about to call it on any queue of up to MaxQueue segments, also on those the
\* producer of this program never builds (a CarriageReturn behind the head)
Segments == {Newline(<<>>), Newline(Run("a", 1)),
             CarriageReturn(<<>>), CarriageReturn(Run("a", 1))}

InitCombine ==
    /\ input_buffer = <<>>
    /\ input_buffer_size = 0
    /\ handle = TRUE
    /\ \E n \in 1..MaxQueue : message_buffer \in [1..n -> Segments]
    /\ channel = <<>>
    /\ ppc = "ready"
    /\ wpc = "combine"
    /\ wake_at = 0
    /\ to_send = NoBatch
    /\ m = NoMessage
    /\ api = NoCall
    /\ last_end = 0
    /\ last_sent_message = NoMessage
    /\ last_send_time = 0
    /\ now = 1
    /\ next_id = 1
    /\ feeds = 0
    /\ closes = 0
    /\ obs = NoObs
    /\ fed = <<>>
    /\ emitted = <<>>
    /\ served = [NoSignal EXCEPT !.signals = 1, !.queued = Len(message_buffer)]
    /\ lock = "free"
    /\ wobs = [last |-> NoOp, prev |-> NoOp, before |-> <<>>]

NextCombine ==
    \/ combine
    \/ \E ok \in BOOLEAN : api_return(ok)

SpecCombine == InitCombine /\ [][NextCombine]_vars

\* ===================================================================== claims

\* a step that is a call of close(), of drop
CloseCalled == closes' = closes + 1
DropCalled == ppc \in {"ready", "panicked"} /\ ppc' \in {"drop_join", "dropped"}

\* C1: once a first close() has sent Kill and joined the worker, a later
\* close(), also the one drop runs, sends nothing, returns at once without a
\* panic and changes nothing of the processor, the queue or the worker.
C1_CloseIdempotent ==
    [][(closes >= 1 /\ (CloseCalled \/ DropCalled))
       => /\ channel' = channel
          /\ ppc' = IF CloseCalled THEN "ready" ELSE "dropped"
          /\ UNCHANGED <<input_buffer, input_buffer_size, handle, message_buffer>>
          /\ UNCHANGED worker_vars]_vars

\* a second close() has run after the first one joined the worker
C1_Witness ==
    /\ closes = 2
    /\ obs = [op |-> "close", had_handle |-> FALSE]
    /\ wpc = "done"
    /\ ppc = "ready"

\* C2: an api call (send or edit) starts no earlier than one second after the
\* previous api call returned, with Ok or with Err.
C2_RateLimit ==
    (api.op # "none" /\ last_end # 0) => api.started >= last_end + OneSecond

\* a second api call that starts exactly one second after the first returned
C2_Witness ==
    /\ api.op # "none"
    /\ last_end # 0
    /\ api.started = last_end + OneSecond
    /\ wobs.prev.result = "err"

\* the worker has dequeued a batch and not yet another one
Dequeued == to_send.tag # "None"

\* C3 as claimed: no returned batch, merged or not, has more than 4095 characters.
C3_BatchBelowLimit ==
    Dequeued => Count(to_send.text) <= MaxMessageLen - 1

\* C3: a batch merged from several segments (it holds a line feed, which no
\* segment does) has at most 4095 characters; a single unmerged segment is
\* returned as the Segmenter cut it, with at most 4096 characters.
C3_BatchAtMostLimit ==
    Dequeued =>
        /\ Count(to_send.text) <= MaxMessageLen
        /\ Contains(to_send.text, LF) => Count(to_send.text) <= MaxMessageLen - 1

\* two segments of 2047 characters merged into a batch of 4095
C3_Witness ==
    /\ Dequeued
    /\ Contains(to_send.text, LF)
    /\ Count(to_send.text) = MaxMessageLen - 1
    /\ Len(wobs.before) = 2

\* the texts of segs joined with line feeds, from the right
RECURSIVE Joined(_)
Joined(segs) ==
    IF Len(segs) = 0 THEN <<>>
    ELSE IF Len(segs) = 1 THEN segs[1].text
    ELSE Cat(Cat(Joined(SubSeq(segs, 1, Len(segs) - 1)), Run(LF, 1)), segs[Len(segs)].text)

\* a step in which the worker runs combine_messages on a non-empty queue
CombineStep == wpc = "combine" /\ wpc' # "combine" /\ Len(message_buffer) > 0

\* the segments combine_messages took off the queue for good in this step
Taken == SubSeq(message_buffer, 1, Len(message_buffer) - Len(message_buffer'))

FeedStep == feeds' = feeds + 1
FlushStep == FeedStep /\ Len(obs'.flushes) = 1
Flushed == obs'.flushes[1].msg

\* C6 as claimed: every flush appends the flushed segment at the tail of the
\* queue and sends one NewElement.
C6_FlushAppendsOne ==
    [][FlushStep
       => /\ message_buffer' = Append(message_buffer, Flushed)
          /\ channel' = Append(channel, "NewElement")]_vars

\* C6: a call of append_to_input_buffer flushes at most once.  While the
\* worker runs, a flush sends exactly one NewElement; it appends the segment
\* at the tail when the segment is a Newline or the queue is empty, and else
\* (a CarriageReturn onto a non-empty queue) puts the segment's text in the
\* place of the tail's text, the tail keeping its tag and the queue its length.
C6_FlushAppendsOrOverrides ==
    [][FeedStep
       => /\ Len(obs'.flushes) <= 1
          /\ (FlushStep /\ wpc # "done")
             => /\ channel' = Append(channel, "NewElement")
                /\ IF Len(message_buffer) = 0 \/ Flushed.tag = "Newline"
                   THEN message_buffer' = Append(message_buffer, Flushed)
                   ELSE /\ Len(message_buffer') = Len(message_buffer)
                        /\ \A i \in 1..Len(message_buffer) :
                             /\ message_buffer'[i].tag = message_buffer[i].tag
                             /\ message_buffer'[i].text =
                                  IF i = Len(message_buffer) THEN Flushed.text
                                  ELSE message_buffer[i].text]_vars

\* a CarriageReturn segment "a" was flushed onto a queue of one empty Newline
\* segment, which now reads "a" and is still a Newline
C6_Witness ==
    /\ obs.op = "feed"
    /\ Len(obs.flushes) = 1
    /\ obs.flushes[1] = [msg |-> CarriageReturn(Run("a", 1)), len_before |-> 1]
    /\ message_buffer = <<Newline(Run("a", 1))>>
    /\ wpc # "done"

\* q is p with segments taken off the head
IsSuffix(q, p) == Len(q) <= Len(p) /\ q = SubSeq(p, Len(p) - Len(q) + 1, Len(p))

\* C7 as claimed: the producer leaves every queued segment as it is, and
\* segments leave the queue at the head only.
C7_ProducerOnlyAppends ==
    [][/\ FeedStep => /\ Len(message_buffer') >= Len(message_buffer)
                      /\ SubSeq(message_buffer', 1, Len(message_buffer)) = message_buffer
       /\ ~FeedStep => IsSuffix(message_buffer', message_buffer)]_vars

\* C7: segments leave the queue at the head only, taken by the worker; the
\* producer removes and retags none and leaves all but the last as they are;
\* the last one gets a new text, and keeps its place and its tag, when a
\* CarriageReturn segment is flushed onto a non-empty queue.
C7_FifoButLastOverridden ==
    [][/\ FeedStep
          => LET n == Len(message_buffer)
             IN  /\ Len(message_buffer') \in {n, n + 1}
                 /\ \A i \in 1..n : message_buffer'[i].tag = message_buffer[i].tag
                 /\ \A i \in 1..(n - 1) : message_buffer'[i] = message_buffer[i]
                 /\ (n >= 1 /\ message_buffer'[n] # message_buffer[n])
                    => /\ FlushStep
                       /\ Flushed = CarriageReturn(message_buffer'[n].text)
                       /\ Len(message_buffer') = n
       /\ ~FeedStep => IsSuffix(message_buffer', message_buffer)]_vars

\* behind an untouched first segment the second one, flushed as an empty
\* Newline, was given the text of a later CarriageReturn segment
C7_Witness ==
    /\ obs.op = "feed"
    /\ Len(obs.flushes) = 1
    /\ obs.flushes[1] = [msg |-> CarriageReturn(Run("a", 1)), len_before |-> 2]
    /\ message_buffer = <<Newline(<<>>), Newline(Run("a", 1))>>

\* a step in which the worker calls override_last(to_send'.text)
OverrideStep == CombineStep /\ to_send'.tag = "CarriageReturn"

\* t up to and with its last line feed; nothing when it has none
UpToLastLineFeed(t) ==
    IF ~Contains(t, LF) THEN <<>>
    ELSE LET i == CHOOSE i \in 1..Len(t) :
                      /\ t[i][1] = LF
                      /\ \A j \in (i + 1)..Len(t) : t[j][1] # LF
         IN  SubSeq(t, 1, i)

\* C8: override_last(s), s not empty, with a last message of another text T,
\* calls edit_message_text for the id of that message with T up to its last
\* line feed followed by s ("x\ny" and "z" give "x\nz"); when the call returns
\* Ok the last message is the edited one.
C8_OverrideReplacesLastLine ==
    /\ final_message(<<<<"x", 1>>, <<LF, 1>>, <<"y", 1>>>>, Run("z", 1))
         = <<<<"x", 1>>, <<LF, 1>>, <<"z", 1>>>>
    /\ [][(/\ OverrideStep
           /\ Count(to_send'.text) > 0
           /\ last_sent_message # NoMessage
           /\ last_sent_message.text # to_send'.text)
          => api' = [op |-> "edit",
                     message_id |-> last_sent_message.message_id,
                     text |-> Cat(UpToLastLineFeed(last_sent_message.text), to_send'.text),
                     started |-> now]]_vars
    /\ [][(wpc = "api" /\ api.op = "edit" /\ wpc' # "api" /\ wobs'.last.result = "ok")
          => last_sent_message' = [message_id |-> api.message_id, text |-> api.text]]_vars

\* the two-line message "\n" is being edited to "\na" by override_last("a")
C8_Witness ==
    /\ wpc = "api"
    /\ api.op = "edit"
    /\ m # NoMessage
    /\ m.text = Run(LF, 1)
    /\ to_send = CarriageReturn(Run("a", 1))
    /\ api.message_id = m.message_id
    /\ api.text = <<<<LF, 1>>, <<"a", 1>>>>

\* C9 as claimed: when override_last(p) follows an override_last(p) whose edit
\* returned Ok, the second one does not call the api.
C9_SameTextEditedOnce ==
    (/\ wobs.last.fn = "override_last"
     /\ wobs.prev.fn = "override_last"
     /\ wobs.prev.s = wobs.last.s
     /\ wobs.prev.called
     /\ wobs.prev.result = "ok")
    => ~wobs.last.called

\* C10: override_last without a last message calls nothing and leaves the
\* last message absent.
C10_OverrideWithoutLast ==
    [][(OverrideStep /\ last_sent_message = NoMessage)
       => /\ api' = NoCall
          /\ last_sent_message' = NoMessage
          /\ wpc' = "recv"]_vars

\* override_last("a") has returned before any message was sent
C10_Witness ==
    /\ wobs.last.fn = "override_last"
    /\ wobs.last.s = Run("a", 1)
    /\ ~wobs.last.called
    /\ last_sent_message = NoMessage
    /\ next_id = 1
    /\ last_end = 0
    /\ wpc = "recv"

\* a step in which an api call returns, and one in which it returns Err
ReturnStep == wpc = "api" /\ wpc' # "api"
FailStep == ReturnStep /\ wobs'.last.result = "err"

\* C11: when an api call fails, send_message and edit_message_text alike, the
\* last message is the one the worker had before the attempt, the queue is
\* left as it is (the failed batch is not put back), no call is started in
\* its place and the worker is back at recv.
C11_FailureKeepsLastMessage ==
    [][FailStep
       => /\ last_sent_message' = wobs.last.had
          /\ message_buffer' = message_buffer
          /\ api' = NoCall
          /\ wpc' = "recv"]_vars

\* an edit of an earlier message has failed and the message is still known
C11_Witness ==
    /\ wobs.last.fn = "override_last"
    /\ wobs.last.result = "err"
    /\ wobs.last.had # NoMessage
    /\ last_sent_message = wobs.last.had
    /\ wpc = "recv"

\* a step in which the worker takes a Kill off the channel
KillStep == /\ wpc = "recv"
            /\ Len(channel) > 0
            /\ Head(channel) = "Kill"
            /\ channel' = Tail(channel)

\* C12: the worker that receives Kill has returned from send_loop, and then it
\* stays so: it receives nothing more (no event leaves the channel), takes
\* nothing off the queue and starts no api call.
C12_KillTerminates ==
    /\ [][KillStep => wpc' = "done"]_vars
    /\ [][wpc = "done"
          => /\ wpc' = "done"
             /\ UNCHANGED worker_vars
             /\ Len(channel') >= Len(channel)
             /\ Len(message_buffer') >= Len(message_buffer)]_vars

\* the worker has returned and a segment flushed afterwards stays queued
C12_Witness ==
    /\ wpc = "done"
    /\ Len(message_buffer) = 1
    /\ obs.op = "feed"
    /\ Len(obs.flushes) = 1

\* C13: the worker stops in no other way than by receiving Kill: it never
\* panics, it returns from send_loop only in a step that takes a Kill off the
\* channel, and after a failed api call, an empty queue, an empty text or an
\* override without a last message it is back at recv, waiting for the next
\* event.
C13_OnlyKillStops ==
    /\ [](wpc # "panicked")
    /\ [][(wpc # "done" /\ wpc' = "done") => KillStep]_vars
    /\ [][FailStep => wpc' = "recv"]_vars
    /\ [][(wpc = "check" /\ wpc' # "check" /\ Len(message_buffer) = 0)
          => wpc' = "recv"]_vars
    /\ [][(CombineStep /\ api' = NoCall) => wpc' = "recv"]_vars

\* after a failed call the worker has made another one, and then found the
\* queue empty on the next event
C13_Witness ==
    /\ wobs.prev.result = "err"
    /\ wobs.last.result = "ok"
    /\ wpc = "check"
    /\ Len(message_buffer) = 0

\* C20: a batch with an empty text, Newline or CarriageReturn, starts no api
\* call and leaves the last message as it is.
C20_EmptyBatchIsDropped ==
    [][(CombineStep /\ Count(to_send'.text) = 0)
       => /\ api' = NoCall
          /\ wpc' = "recv"
          /\ last_sent_message' = last_sent_message]_vars

\* an empty CarriageReturn batch was dequeued while a last message is known
C20_Witness ==
    /\ to_send = CarriageReturn(<<>>)
    /\ wobs.last.fn = "override_last"
    /\ ~wobs.last.called
    /\ last_sent_message # NoMessage
    /\ wobs.last.had = last_sent_message

\* close() or drop is waiting in handle.join()
Joining == ppc \in {"close_join", "drop_join"}

\* C14: close() and drop, called while the worker runs, send Kill and wait in
\* join; the worker then returns from send_loop (given that api calls and
\* sleeps return), and join returns only when it has.
C14_ShutdownCompletes ==
    /\ [][((CloseCalled \/ DropCalled) /\ wpc # "done")
          => /\ channel' = Append(channel, "Kill")
             /\ Joining']_vars
    /\ Joining ~> (wpc = "done")
    /\ [][(Joining /\ ~Joining') => wpc = "done"]_vars

\* drop, without a close() before it, has joined a worker that still had a
\* message to send
C14_Witness ==
    /\ ppc = "dropped"
    /\ closes = 0
    /\ obs.op = "join"
    /\ wpc = "done"
    /\ last_sent_message # NoMessage

\* the producer state after append_to_input_buffer was called for each
\* character of s in turn (s holds no run of two or more)
RECURSIVE FedInto(_, _)
FedInto(p, s) ==
    IF Len(s) = 0 THEN p ELSE FedInto(append_chars(p, <<Head(s)>>), Tail(s))

\* the lines of s that a line feed has ended, and whether s is made of lines
\* shorter than the limit, without a carriage return
EndedLines(s) == SubSeq(split(s), 1, Len(split(s)) - 1)
HasOnlyLines(s) ==
    /\ ~Contains(s, CR)
    /\ \A i \in 1..Len(split(s)) : Count(split(s)[i]) < MaxMessageLen
EndsWithLineFeed(s) == Len(s) > 0 /\ s[Len(s)][1] = LF

\* C15: for input made of lines without a carriage return, each shorter than
\* 4096 characters, the messages composed so far are one Newline per line
\* feed, each with the text of its line, in the order of the input; when all
\* lines are ended and all these messages are in the queue, with a joined
\* length below 4096, combine_messages returns one Newline of the texts joined
\* by line feeds and leaves the queue empty.  "a\nb\nc\n" gives "a", "b",
\* "c" and the batch "a\nb\nc".
C15_LinesBecomeSegments ==
    /\ LET abc == <<<<"a", 1>>, <<LF, 1>>, <<"b", 1>>, <<LF, 1>>, <<"c", 1>>, <<LF, 1>>>>
           p == FedInto(ProducerState, abc)
       IN  /\ p.q = <<Newline(Run("a", 1)), Newline(Run("b", 1)), Newline(Run("c", 1))>>
           /\ combine_messages(p.q) =
                 [batch |-> Newline(<<<<"a", 1>>, <<LF, 1>>, <<"b", 1>>, <<LF, 1>>,
                                      <<"c", 1>>>>),
                  rest |-> <<>>]
    /\ [](HasOnlyLines(fed)
          => emitted = [i \in 1..Len(EndedLines(fed)) |-> Newline(EndedLines(fed)[i])])
    /\ [][(/\ CombineStep
           /\ HasOnlyLines(fed)
           /\ EndsWithLineFeed(fed)
           /\ message_buffer = emitted
           /\ Count(Joined(emitted)) < MaxMessageLen)
          => /\ to_send' = Newline(join_parts(EndedLines(fed)))
             /\ message_buffer' = <<>>]_vars

\* "a\nb\n" was fed and its two messages were dequeued as the batch "a\nb"
C15_Witness ==
    /\ fed = <<<<"a", 1>>, <<LF, 1>>, <<"b", 1>>, <<LF, 1>>>>
    /\ emitted = <<Newline(Run("a", 1)), Newline(Run("b", 1))>>
    /\ wobs.before = emitted
    /\ to_send = Newline(<<<<"a", 1>>, <<LF, 1>>, <<"b", 1>>>>)
    /\ message_buffer = <<>>

\* the texts of segs one after the other
RECURSIVE Texts(_)
Texts(segs) == IF Len(segs) = 0 THEN <<>> ELSE Cat(Head(segs).text, Texts(Tail(segs)))

\* C16: the texts of all messages composed so far, followed by what the
\* accumulator holds besides carriage returns, are the characters fed so far
\* without the carriage returns and line feeds, in the same order; also when
\* the 4096 limit has cut a line.
C16_NothingLostNothingTwice ==
    Cat(Texts(emitted), Without(input_buffer, CR)) = Without(Without(fed, CR), LF)

\* a carriage return and 4095 characters were flushed at the limit, and the
\* next character is in the accumulator
C16_Witness ==
    /\ Len(emitted) = 2
    /\ emitted[2] = CarriageReturn(Run("a", MaxMessageLen - 1))
    /\ input_buffer = Run("b", 1)
    /\ fed = <<<<CR, 1>>, <<"a", MaxMessageLen - 1>>, <<"b", 1>>>>

\* the characters fed in this step: the last one, as many times as fed grew
FedNow == Run(fed'[Len(fed')][1], Count(fed') - Count(fed))

\* C17: after every feed the accumulator holds fewer than 4096 characters and
\* input_buffer_size is their number; a character other than a line break
\* that brings the number to 4096 is flushed at once with all before it; no
\* composed message has a text of more than 4096 characters.
C17_SegmentSizeCap ==
    /\ [](/\ input_buffer_size < MaxMessageLen
          /\ input_buffer_size = Count(input_buffer)
          /\ \A i \in 1..Len(emitted) : Count(emitted[i].text) <= MaxMessageLen)
    /\ [][(/\ FeedStep
           /\ FedNow[1][1] \notin {LF, CR}
           /\ input_buffer_size + Count(FedNow) >= MaxMessageLen)
          => /\ FlushStep
             /\ Flushed.text = Without(Cat(input_buffer, FedNow), CR)
             /\ input_buffer' = <<>>
             /\ input_buffer_size' = 0]_vars

\* 4095 characters and one more were flushed as one message of 4096
C17_Witness ==
    /\ emitted = <<Newline(<<<<"a", MaxMessageLen - 1>>, <<"b", 1>>>>)>>
    /\ input_buffer = <<>>
    /\ input_buffer_size = 0
    /\ obs.op = "feed"
    /\ Len(obs.flushes) = 1

\* what the accumulator holds when this step flushes it: a line break is fed
\* after the flush, any other character before it
FlushedFrom ==
    IF FedNow[1][1] \in {LF, CR} THEN input_buffer ELSE Cat(input_buffer, FedNow)

\* C18: a flush composes a CarriageReturn exactly when the accumulator holds
\* a carriage return, else a Newline, with the text of the accumulator less
\* its carriage returns; no composed text holds a carriage return or a line
\* feed; the accumulator holds a carriage return as its first character only.
C18_SegmentTagging ==
    /\ [](/\ \A i \in 2..Len(input_buffer) : input_buffer[i][1] # CR
          /\ (Len(input_buffer) > 0 /\ input_buffer[1][1] = CR) => input_buffer[1][2] = 1
          /\ ~Contains(input_buffer, LF)
          /\ \A i \in 1..Len(emitted) :
                ~Contains(emitted[i].text, CR) /\ ~Contains(emitted[i].text, LF))
    /\ [][FlushStep
          => /\ Flushed.tag = IF Contains(FlushedFrom, CR) THEN "CarriageReturn"
                              ELSE "Newline"
             /\ Flushed.text = Without(FlushedFrom, CR)]_vars

\* "\ra\n" was fed: the line feed flushed "\ra" as CarriageReturn("a")
C18_Witness ==
    /\ fed = <<<<CR, 1>>, <<"a", 1>>, <<LF, 1>>>>
    /\ emitted = <<Newline(<<>>), CarriageReturn(Run("a", 1))>>
    /\ input_buffer = <<>>

\* C19: for one NewElement received the worker calls combine_messages once if
\* it finds the queue non-empty when it looks, and not at all if it finds it
\* empty, and it makes at most one api call; so there are never more api
\* calls than NewElement events received; events are received in the order
\* they were sent (they leave the channel at its head and enter at its end).
C19_OneDequeuePerSignal ==
    /\ [](/\ served.dequeues <= 1
          /\ served.calls <= served.dequeues
          /\ served.queued = 0 => served.dequeues = 0
          /\ served.dispatches <= served.signals
          /\ (wpc = "recv" /\ served.queued > 0) => served.dequeues = 1)
    /\ [][CombineStep => (served.queued > 0 /\ served.dequeues = 0)]_vars
    /\ [][channel' # channel
          => \/ (wpc = "recv" /\ wpc' # "recv" /\ Len(channel) > 0
                 /\ channel' = Tail(channel))
             \/ \E e \in {"NewElement", "Kill"} : channel' = Append(channel, e)]_vars

\* three events were received for one api call: one of them found two
\* messages in the queue, the last one found the queue empty
C19_Witness ==
    /\ served.signals = 3
    /\ served.dispatches = 1
    /\ served.queued = 0
    /\ served.dequeues = 0
    /\ wpc = "recv"
    /\ Len(wobs.before) = 2

\* the queue after the flushed message has overridden the last one, or was
\* pushed behind it
Overridden(q, msg) ==
    [i \in 1..Len(q) |-> IF i = Len(q) THEN [tag |-> q[i].tag, text |-> msg.text]
                         ELSE q[i]]
Overrides == Flushed.tag = "CarriageReturn" /\ Len(message_buffer) > 0
AfterAppend ==
    IF Overrides THEN Overridden(message_buffer, Flushed)
    ELSE Append(message_buffer, Flushed)

C23_PopNeverFindsEmptyQueue ==
    /\ [](wpc = "combine" => Len(message_buffer) > 0)
    /\ [][(wpc = "combine" /\ wpc' # "combine") => wpc' \in {"api", "recv"}]_vars
    /\ [][FeedStep => Len(message_buffer') >= Len(message_buffer)]_vars

\* between the test of the length and the pop the producer has overridden
\* the only queued message
C23_Witness ==
    /\ wpc = "combine"
    /\ served.queued = 1
    /\ Len(message_buffer) = 1
    /\ obs.op = "feed"
    /\ Len(obs.flushes) = 1
    /\ obs.flushes[1] = [msg |-> CarriageReturn(Run("a", 1)), len_before |-> 1]

\* C24: behind the head of the queue every message is a Newline, so at most
\* one is a CarriageReturn, and at the head; combine_messages therefore never
\* pops a CarriageReturn while it merges.
C24_CarriageReturnOnlyAtHead ==
    /\ [](\A i \in 2..Len(message_buffer) : message_buffer[i].tag = "Newline")
    /\ [][(CombineStep /\ Head(message_buffer).tag = "Newline")
          => \A i \in 1..Len(Taken) : Taken[i].tag = "Newline"]_vars

\* a CarriageReturn at the head with a Newline behind it
C24_Witness ==
    /\ Len(message_buffer) = 2
    /\ message_buffer[1].tag = "CarriageReturn"
    /\ message_buffer[2].tag = "Newline"

\* the NewElement events sent and not yet received
Unreceived == Len(SelectSeq(channel, LAMBDA e : e = "NewElement"))

\* C25: while the worker waits in recv the queue holds at most as many
\* messages as NewElement events wait in the channel; so the queue is empty
\* when the worker receives the Kill that close() sent after them.
C25_QueueDrainedBeforeKill ==
    /\ [](wpc = "recv" => Len(message_buffer) <= Unreceived)
    /\ [][KillStep => Len(message_buffer) = 0]_vars

\* the worker has returned after two events, with something dequeued and
\* nothing left in the queue
C25_Witness ==
    /\ wpc = "done"
    /\ closes = 1
    /\ served.signals = 2
    /\ Len(wobs.before) = 2
    /\ message_buffer = <<>>
    /\ obs.op = "join"

\* a step of close() or of drop: the call, and the return of its join
ClosingStep == CloseCalled \/ DropCalled \/ (Joining /\ ~Joining')

\* C26: close() and drop leave the accumulator and the queue as they are:
\* what was fed after the last flush is not composed into a message, not
\* queued and not sent.
C26_CloseDoesNotFlush ==
    [][ClosingStep
       => /\ UNCHANGED <<input_buffer, input_buffer_size, message_buffer>>
          /\ \A i \in 1..Len(channel') : i > Len(channel) => channel'[i] = "Kill"]_vars

\* the processor was dropped with an "a" in the accumulator and nothing was
\* ever queued or sent
C26_Witness ==
    /\ ppc = "dropped"
    /\ wpc = "done"
    /\ input_buffer = Run("a", 1)
    /\ input_buffer_size = 1
    /\ served.signals = 0
    /\ message_buffer = <<>>
    /\ next_id = 1

\* C21: the producer and the worker are never both in a critical section of
\* the queue; the worker holds the lock in its two critical sections only,
\* not while it waits in recv, sleeps or has an api call in flight, and the
\* producer only in append_to_send_buffer; so a call of append_to_input_buffer
\* that has begun returns, whatever the worker is doing and however long the
\* queue is (given that the threads are scheduled).
C21_LockNeverHeldWhileBlocking ==
    /\ [](~(ppc \in SectionPcs /\ wpc \in WorkerSectionPcs))
    /\ [](lock = "worker" <=> wpc \in WorkerSectionPcs)
    /\ [](lock = "producer" <=> ppc \in SectionPcs)
    /\ [](wpc \in {"recv", "sleep", "api", "done"} => lock # "worker")
    /\ (ppc # "ready") ~> (ppc = "ready")

\* while an api call is in flight a call of append_to_input_buffer has put a
\* message in the queue and returned
C21_Witness ==
    /\ wpc = "api"
    /\ to_send.tag = "Newline"
    /\ Len(message_buffer) >= 1
    /\ ppc = "ready"
    /\ obs.op = "feed"
    /\ Len(obs.flushes) = 1
    /\ lock = "free"

====
